---- MODULE Spec2Model ----
(***************************************************************************)
(* Periodic task scheduler (app/src/scheduler.js), the scheduler's shared  *)
(* Appium session (app/src/appium.js) and the debug session manager with   *)
(* its retrying request wrapper (app/api/debug/debug.js).                  *)
(*                                                                         *)
(* JavaScript runs every handler to completion between two awaits, so one  *)
(* action is the code from one suspension point (an await on the remote    *)
(* driver, on a script's execute, or on a timer) to the next.  An await on *)
(* an already settled promise resumes before any other I/O callback and is *)
(* folded into the action that reaches it.                                 *)
(*                                                                         *)
(* The specifications share the variables:                                 *)
(*   Spec          scheduler loop, dispatches and the scheduler's session  *)
(*   CrashSpec     Spec with a remote session that may die                 *)
(*   FairSpec      Spec started late, with fair triggers and dispatches    *)
(*   HangFairSpec  FairSpec without fairness for one unit's execute()      *)
(*   PopulateSpec  initialize() over any set of broken script files        *)
(*   StatusSpec    PopulateSpec with status queries (POST /api/scheduler)  *)
(*   NamesSpec     PopulateSpec with two scripts exporting the same name   *)
(*   HeapSpec      MinHeap under arbitrary push and pop calls              *)
(*   CalcSpec      calculateNextRun applied to bounded inputs              *)
(*   DebugSpec     debug.js: getDebugDriver, handleRequest,                *)
(*                 checkConnection, closeDebugSession                      *)
(*   ApiSpec       debug.js: handleDebugAPI, one call after the other      *)
(*   WsSpec        server.js: WebSocket clients connecting and leaving     *)
(***************************************************************************)
EXTENDS Integers, Sequences, FiniteSets, Bags, TLC

\* ------------------------------------------------------------------ bounds

\* The clock (Date.now(), in milliseconds) advances ClockStep at a time, up to
\* MaxClockSteps times.
ClockStep == 500
MaxClockSteps == 10
\* Concurrent executeTask activations the model can hold.
MaxDispatch == 3
\* Remote session identifiers (1..MaxSessions); 0 is the null handle.
MaxSessions == 3
\* checkAndExecuteTasks calls that may be suspended at `await initialize()`.
MaxTicks == 2
\* FairSpec: clock steps gone by when the process starts.
FairStartSteps == 4
\* DebugSpec: the largest `retries` argument, and the remote session
\* identifiers of the debug side.
MaxRetries == 1
MaxDebugSessions == 2
\* WsSpec: WebSocket clients that connect.
MaxClients == 2
\* CalcSpec: ranges of the recurrence calculator's inputs.
MaxCalcSteps == 8
MaxPeriod == 3
MaxJitter == 2
\* HeapSpec: push calls made on the heap, and the largest nextRun pushed.
MaxPushes == 4
MaxKey == 2

\* scheduler.js:143,158  seconds <-> milliseconds
MsPerSec == 1000

Null == 0
SessionIds == 1..MaxSessions

VARIABLES
    now,          \* Date.now() in ms
    heap,         \* scheduler.js `heap.heap`: array of task entries
    initialized,  \* scheduler.js `initialized`
    registered,   \* names initialize() pushed (history)
    disp,         \* executeTask activations, by slot
    driver,       \* appium.js `driver` (Null or a session id)
    remote,       \* scheduler side: state of each remote session
    ticks,        \* checkAndExecuteTasks calls suspended at `await initialize()`
    response,     \* status of the last answer of GET /api/scheduler (0: none yet)
    broken,       \* the script files whose loading throws
    ops,          \* HeapSpec: history of the push and pop calls made on the heap
    calc,         \* CalcSpec: inputs and result of calculateNextRun
    debugDriver,  \* debug.js `debugDriver` (Null or a session id)
    dremote,      \* debug side: state of each remote session
    req,          \* activations of the debug module's operations
    status,       \* StatusSpec: body of the last answer of POST /api/scheduler
    api,          \* ApiSpec: the handleDebugAPI call and its answer
    ws,           \* WsSpec: the WebSocket clients of server.js
    connections   \* server.js `connections`: the client ids it maps

tickVars == <<ticks, response, broken>>
schedVars == <<now, heap, initialized, registered, disp, driver, remote, tickVars>>
calcVars == <<calc, ops>>
frontVars == <<api, ws, connections>>
auxVars == <<calcVars, status, frontVars>>
debugVars == <<debugDriver, dremote, req>>

\* ------------------------------------------------------- recurrence (pure)

\* The draw used as it is, never shifted down by offset.
randomOffset_unshifted(offset, k) == k

\* Math.floor(Math.random() * (offset * 2 + 1)) - offset, for the draw
\* k = Math.floor(Math.random() * (offset * 2 + 1)) in 0..2*offset.
randomOffset(offset, k) == k - offset

JitterDraws(offset) == 0..(2 * offset)

\* calculateNextRun counting the period from now instead of from the aligned
\* period start.
calculateNextRun_unaligned(t, period, position, offset, k) ==
    LET nowSeconds == t \div MsPerSec
        nextPeriodStart == nowSeconds + period
        targetTime == nextPeriodStart + position + randomOffset(offset, k)
    IN  targetTime * MsPerSec

\* calculateNextRun anchored on the period that holds now, whether or not
\* that instant has passed.
calculateNextRun_currentPeriod(t, period, position, offset, k) ==
    LET nowSeconds == t \div MsPerSec
        targetPeriodStart == (nowSeconds \div period) * period
        targetTime == targetPeriodStart + position + randomOffset(offset, k)
    IN  targetTime * MsPerSec

\* calculateNextRun(period, position, offset) at Date.now() = t with jitter draw k.
calculateNextRun(t, period, position, offset, k) ==
    LET nowSeconds == t \div MsPerSec
        nextPeriodStart == nowSeconds + period
        targetPeriodStart == (nextPeriodStart \div period) * period
        targetTime == targetPeriodStart + position + randomOffset(offset, k)
    IN  targetTime * MsPerSec

\* ----------------------------------------------------------- heap entries

\* A script's `schedule`: period = 0 stands for a missing (falsy) period,
\* hasPosition = FALSE for `position === undefined`.
Recurrence(p, pos, off) ==
    [hasSchedule |-> TRUE, enabled |-> TRUE, period |-> p,
     hasPosition |-> TRUE, position |-> pos, offset |-> off]

\* A script without `schedule`.
NoSchedule == [Recurrence(0, 0, 0) EXCEPT !.hasSchedule = FALSE]

\* null where the code returns or holds no task.
NoTask == [name |-> "-", scriptPath |-> <<>>, schedule |-> NoSchedule, nextRun |-> 0]

\* ------------------------------------------------------------- MinHeap

\* Indices are the code's 0-based indices; the sequence is 1-based.
At(h, i) == h[i + 1]

parent(i) == (i - 1) \div 2
left(i) == 2 * i + 1
right(i) == 2 * i + 2

swap(h, i, j) == [h EXCEPT ![i + 1] = h[j + 1], ![j + 1] = h[i + 1]]

\* heapifyUp comparing the wrong way round: the larger entry moves up.
RECURSIVE heapifyUp_maxFirst(_, _)
heapifyUp_maxFirst(h, i) ==
    IF i > 0 /\ At(h, parent(i)).nextRun < At(h, i).nextRun
    THEN heapifyUp_maxFirst(swap(h, i, parent(i)), parent(i))
    ELSE h

RECURSIVE heapifyUp(_, _)
heapifyUp(h, i) ==
    IF i > 0 /\ At(h, parent(i)).nextRun > At(h, i).nextRun
    THEN heapifyUp(swap(h, i, parent(i)), parent(i))
    ELSE h

\* heapifyDown that never looks at the right child.
RECURSIVE heapifyDown_leftOnly(_, _)
heapifyDown_leftOnly(h, i) ==
    LET l == left(i)
        minIndex == IF l < Len(h) /\ At(h, l).nextRun < At(h, i).nextRun THEN l ELSE i
    IN  IF i # minIndex THEN heapifyDown_leftOnly(swap(h, i, minIndex), minIndex) ELSE h

RECURSIVE heapifyDown(_, _)
heapifyDown(h, i) ==
    LET l == left(i)
        r == right(i)
        m1 == IF l < Len(h) /\ At(h, l).nextRun < At(h, i).nextRun THEN l ELSE i
        minIndex == IF r < Len(h) /\ At(h, r).nextRun < At(h, m1).nextRun THEN r ELSE m1
    IN  IF i # minIndex THEN heapifyDown(swap(h, i, minIndex), minIndex) ELSE h

\* push without restoring the heap order.
push_noHeapify(h, task) == Append(h, task)

push(h, task) == heapifyUp(Append(h, task), Len(h))

\* pop() without its test for the empty heap: `this.heap[0] = this.heap.pop()`
\* leaves a one-element array holding undefined.
popHeap_noEmptyTest(h) ==
    IF Len(h) = 0 THEN <<NoTask>>
    ELSE IF Len(h) = 1 THEN <<>>
    ELSE heapifyDown([SubSeq(h, 1, Len(h) - 1) EXCEPT ![1] = h[Len(h)]], 0)

\* The heap after pop() (the popped element is peek(h)); pop() on an empty
\* heap returns null and leaves it empty.
popHeap(h) ==
    IF Len(h) = 0 THEN h
    ELSE IF Len(h) = 1 THEN <<>>
    ELSE heapifyDown([SubSeq(h, 1, Len(h) - 1) EXCEPT ![1] = h[Len(h)]], 0)

\* peek(): the root, null (NoTask) on an empty heap.
peek(h) == IF Len(h) > 0 THEN h[1] ELSE NoTask

size(h) == Len(h)

InHeap(h, name) == {i \in 1..Len(h) : h[i].name = name}

\* --------------------------------------------------------- schedulable units

\* The *.js files readdirSync finds in app/scripts, in listing order, and the
\* `schedule` each one exports.  period = 0 stands for a missing (falsy)
\* period, hasPosition = FALSE for `position === undefined`.  "P" declares a
\* position beyond its period.  "C" is a copy of a script under another file
\* name: it exports the `name` of "A".
UnitOrder == <<"A", "B", "C", "D", "P", "X">>

Units == {UnitOrder[i] : i \in 1..Len(UnitOrder)}

ScheduleOf(u) ==
    CASE u = "A" -> Recurrence(2, 0, 1)
      [] u = "B" -> Recurrence(2, 1, 0)
      [] u = "C" -> Recurrence(2, 1, 0)
      [] u = "D" -> [Recurrence(2, 0, 0) EXCEPT !.enabled = FALSE]
      [] u = "P" -> Recurrence(8, 9, 0)
      [] OTHER   -> [Recurrence(0, 0, 0) EXCEPT !.hasPosition = FALSE]

\* scheduler.js:188  `!script.schedule || !script.schedule.enabled`
NotEnabled(sch) == ~sch.hasSchedule \/ ~sch.enabled

\* scheduler.js:196  `!period || position === undefined`
InvalidConfig(sch) == sch.period = 0 \/ ~sch.hasPosition

\* path.join(SCRIPTS_DIR, file): where the unit's script was loaded from.
ScriptPath(u) == <<"scripts", u>>

\* scheduler.js:205  `name: script.name || file`.
NameOf(u) == IF u = "C" THEN "A" ELSE u

\* The entry initialize() pushes for unit u at time t with jitter draw k.
NewEntry(u, t, k) ==
    LET sch == ScheduleOf(u)
    IN  [name |-> NameOf(u), scriptPath |-> ScriptPath(u), schedule |-> sch,
         nextRun |-> calculateNextRun(t, sch.period, sch.position, sch.offset, k)]

\* The for-loop of initialize() giving up at the first file that throws.
RECURSIVE LoadUnits_abortOnError(_, _, _, _)
LoadUnits_abortOnError(h, i, failed, t) ==
    IF i > Len(UnitOrder) THEN {h}
    ELSE LET u == UnitOrder[i]
             sch == ScheduleOf(u)
         IN  IF u \in failed THEN {h}
             ELSE IF NotEnabled(sch) \/ InvalidConfig(sch)
             THEN LoadUnits_abortOnError(h, i + 1, failed, t)
             ELSE UNION {LoadUnits_abortOnError(push(h, NewEntry(u, t, k)), i + 1, failed, t) :
                            k \in JitterDraws(sch.offset)}

\* The for-loop of initialize() from file i on, at time t: units that fail
\* to load (`failed`) are caught per file, disabled and invalid ones are
\* skipped.  The heaps it can produce, one for each choice of jitter draws.
RECURSIVE LoadUnits(_, _, _, _)
LoadUnits(h, i, failed, t) ==
    IF i > Len(UnitOrder) THEN {h}
    ELSE LET u == UnitOrder[i]
             sch == ScheduleOf(u)
         IN  IF u \in failed \/ NotEnabled(sch) \/ InvalidConfig(sch)
             THEN LoadUnits(h, i + 1, failed, t)
             ELSE UNION {LoadUnits(push(h, NewEntry(u, t, k)), i + 1, failed, t) :
                            k \in JitterDraws(sch.offset)}

Names(h) == {h[i].name : i \in 1..Len(h)}

\* The elements HeapSpec pushes: entries that differ in name and nextRun.
HeapItems == {[NoTask EXCEPT !.name = n, !.nextRun = k] : n \in {"A", "B"}, k \in 0..MaxKey}

\* ------------------------------------------------------------- dispatches

Slots == 1..MaxDispatch

Idle == [pc |-> "idle", task |-> NoTask, began |-> 0, h |-> Null, res |-> "-"]

FreeSlots(d) == {s \in Slots : d[s].pc = "idle"}

MinOf(S) == CHOOSE x \in S : \A y \in S : x <= y

\* The loop of checkAndExecuteTasks as an `if`: at most one entry is popped.
Drain_onlyFirst(h, t, acc) ==
    IF Len(h) > 0 /\ peek(h).nextRun <= t
    THEN <<popHeap(h), Append(acc, peek(h))>>
    ELSE <<h, acc>>

\* The while-loop of checkAndExecuteTasks: pops every entry due at t.
\* Returns <<heap after the loop, entries popped in order>>.
RECURSIVE Drain(_, _, _)
Drain(h, t, acc) ==
    IF Len(h) > 0 /\ peek(h).nextRun <= t
    THEN Drain(popHeap(h), t, Append(acc, peek(h)))
    ELSE <<h, acc>>

\* executeTask(task) up to its first pending await: startAppiumSession()
\* returns the existing driver (execute is then called), or calls remote().
StartedPc(drv) == IF drv # Null THEN "executing" ELSE "connecting"

RECURSIVE StartAll(_, _, _, _, _)
StartAll(d, tasks, i, t, drv) ==
    IF i > Len(tasks) THEN d
    ELSE LET s == MinOf(FreeSlots(d))
         IN  StartAll([d EXCEPT ![s] = [pc |-> StartedPc(drv), task |-> tasks[i],
                                        began |-> t, h |-> Null, res |-> "-"]],
                      tasks, i + 1, t, drv)

\* A session identifier the remote server has not handed out to a live handle.
UsedIds == {i \in SessionIds : remote[i] # "none" \/ driver = i}
FreshIds == SessionIds \ UsedIds

\* nextRun computed from the time the task was due instead of Date.now().
Rescheduled_fromDueTime(h, task, t, k) ==
    push(h, [task EXCEPT !.nextRun =
                calculateNextRun(task.nextRun, task.schedule.period, task.schedule.position,
                                 task.schedule.offset, k)])

\* scheduler.js:298-305 and 322-327: push({...task, nextRun}).
Rescheduled(h, task, t, k) ==
    push(h, [task EXCEPT !.nextRun =
                calculateNextRun(t, task.schedule.period, task.schedule.position,
                                 task.schedule.offset, k)])

\* ------------------------------------------------------------ scheduler

\* new Date(ms).toISOString(): the timestamp as its seconds and milliseconds
\* fields.
toISOString(ms) == <<ms \div MsPerSec, ms % MsPerSec>>

\* getStatus() on heap h.
getStatus(h, init) ==
    [initialized |-> init,
     queueSize |-> size(h),
     tasks |-> [i \in 1..Len(h) |->
                  [name |-> h[i].name, nextRun |-> toISOString(h[i].nextRun),
                   schedule |-> h[i].schedule]]]

\* No push or pop was made: the bags of the elements pushed and popped, and
\* what the last pop() returned (NoTask for null).
NoOps == [pushed |-> EmptyBag, popped |-> EmptyBag, last |-> NoTask]

\* The module as loaded by a process started at time t.
SchedInitAt(t) ==
    /\ now = t
    /\ heap = <<>>
    /\ initialized = FALSE
    /\ registered = {}
    /\ disp = [s \in Slots |-> Idle]
    /\ driver = Null
    /\ remote = [i \in SessionIds |-> "none"]
    /\ ticks = 0
    /\ response = 0
    /\ ops = NoOps
    /\ status = <<>>

SchedInit == SchedInitAt(0)

\* A checkAndExecuteTasks call suspended at `await initialize()` resumes as
\* a microtask: before time passes and before any I/O callback runs, though
\* after the calls made in the same run of the event loop.
NoTickSuspended == ticks = 0

\* Time passes.
Advance ==
    /\ NoTickSuspended
    /\ now < MaxClockSteps * ClockStep
    /\ now' = now + ClockStep
    /\ UNCHANGED <<heap, initialized, registered, disp, driver, remote, tickVars, auxVars, debugVars>>

\* The extraction loop waiting until no dispatch is in flight.
TickFrom_awaitTasks(h0) ==
    LET dr == Drain(h0, now, <<>>)
    IN  /\ \A s \in Slots : disp[s].pc = "idle"
        /\ heap' = dr[1]
        /\ disp' = StartAll(disp, dr[2], 1, now, driver)

\* The extraction loop skipped while any dispatch is in flight.
TickFrom_skipWhileBusy(h0) ==
    LET dr == Drain(h0, now, <<>>)
    IN  IF \E s \in Slots : disp[s].pc # "idle"
        THEN heap' = h0 /\ disp' = disp
        ELSE /\ heap' = dr[1]
             /\ disp' = StartAll(disp, dr[2], 1, now, driver)

\* The tick's extraction loop and the synchronous start of every executeTask,
\* from heap h0.
TickFrom(h0) ==
    LET dr == Drain(h0, now, <<>>)
    IN  /\ Len(dr[2]) <= Cardinality(FreeSlots(disp))
        /\ heap' = dr[1]
        /\ disp' = StartAll(disp, dr[2], 1, now, driver)

\* A call on an initialized scheduler that scans the scripts directory again.
Tick_rescan ==
    /\ initialized
    /\ \E loaded \in LoadUnits(heap, 1, broken, now) : TickFrom(loaded)
    /\ response' = 204
    /\ UNCHANGED <<now, initialized, registered, driver, remote, ticks, broken,
                   auxVars, debugVars>>

\* GET /api/scheduler on an initialized scheduler: checkAndExecuteTasks() runs
\* to its end, dispatching every due task, and the route answers 204.
Tick ==
    /\ initialized
    /\ TickFrom(heap)
    /\ response' = 204
    /\ UNCHANGED <<now, initialized, registered, driver, remote, ticks, broken,
                   auxVars, debugVars>>

\* initialize() that loads the units but does not record that it did.
TickCold_notMarked ==
    /\ ~initialized
    /\ ticks < MaxTicks
    /\ \E loaded \in LoadUnits(heap, 1, broken, now) :
          /\ heap' = loaded
          /\ registered' = registered \cup Names(loaded)
    /\ initialized' = FALSE
    /\ ticks' = ticks + 1
    /\ response' = 204
    /\ UNCHANGED <<now, disp, driver, remote, broken, auxVars, debugVars>>

\* GET /api/scheduler on a cold scheduler: initialize() loads the units (the
\* files in `broken` throw while loading), checkAndExecuteTasks is suspended
\* at `await initialize()` and the route answers 204.
TickCold ==
    /\ ~initialized
    /\ ticks < MaxTicks
    /\ \E loaded \in LoadUnits(heap, 1, broken, now) :
          /\ heap' = loaded
          /\ registered' = registered \cup Names(loaded)
    /\ initialized' = TRUE
    /\ ticks' = ticks + 1
    /\ response' = 204
    /\ UNCHANGED <<now, disp, driver, remote, broken, auxVars, debugVars>>

\* initialize() failing after it has pushed the first unit.
TickColdFail_partial ==
    /\ ~initialized
    /\ ticks < MaxTicks
    /\ \E k \in JitterDraws(ScheduleOf("A").offset) :
          heap' = push(heap, NewEntry("A", now, k))
    /\ ticks' = ticks + 1
    /\ response' = 204
    /\ UNCHANGED <<now, initialized, registered, disp, driver, remote, broken,
                   auxVars, debugVars>>

\* GET /api/scheduler on a cold scheduler when readdirSync throws:
\* initialize() logs the error and leaves `initialized` false.
TickColdFail ==
    /\ ~initialized
    /\ ticks < MaxTicks
    /\ ticks' = ticks + 1
    /\ response' = 204
    /\ UNCHANGED <<now, heap, initialized, registered, disp, driver, remote, broken,
                   auxVars, debugVars>>

\* A checkAndExecuteTasks call resumes after `await initialize()` and runs
\* its loop.
TickResume ==
    /\ ticks > 0
    /\ TickFrom(heap)
    /\ ticks' = ticks - 1
    /\ UNCHANGED <<now, initialized, registered, driver, remote, response, broken,
                   auxVars, debugVars>>

\* POST /api/scheduler calling initialize() before it reads the status.
PostStatus_populating ==
    /\ \E loaded \in (IF initialized THEN {heap} ELSE LoadUnits(heap, 1, broken, now)) :
          /\ heap' = loaded
          /\ registered' = registered \cup Names(loaded)
          /\ initialized' = TRUE
          /\ status' = <<[success |-> TRUE, initialized |-> TRUE, queueSize |-> size(loaded),
                          tasks |-> getStatus(loaded, TRUE).tasks]>>
    /\ UNCHANGED <<now, disp, driver, remote, tickVars, calcVars, debugVars, frontVars>>

\* POST /api/scheduler: answers {success: true, ...getStatus()}. status keeps
\* the body of the last answer (<<>>: none yet).
PostStatus ==
    /\ LET st == getStatus(heap, initialized)
       IN  status' = <<[success |-> TRUE, initialized |-> st.initialized,
                        queueSize |-> st.queueSize, tasks |-> st.tasks]>>
    /\ UNCHANGED <<schedVars, calcVars, debugVars, frontVars>>

\* The instrumentation of the remote session the scheduler holds dies; the
\* session stays registered with the server until it is deleted.
SessionCrash(i) ==
    /\ NoTickSuspended
    /\ driver = i
    /\ remote[i] = "open"
    /\ remote' = [remote EXCEPT ![i] = "crashed"]
    /\ UNCHANGED <<now, heap, initialized, registered, disp, driver, tickVars,
                   auxVars, debugVars>>

\* Catch with the final push left out when there is no session to stop.
Catch_noPush(s, drv) ==
    IF drv = Null
    THEN /\ heap' = heap
         /\ disp' = [disp EXCEPT ![s] = Idle]
    ELSE /\ heap' = heap
         /\ disp' = [disp EXCEPT ![s].pc = "cleanup", ![s].h = drv]

\* The catch block of executeTask entered by slot s when `driver` is drv:
\* stopAppiumSession() returns at once without a driver, and the task is
\* rescheduled; otherwise deleteSession() is pending.
Catch(s, drv) ==
    IF drv = Null
    THEN \E k \in JitterDraws(disp[s].task.schedule.offset) :
            /\ heap' = Rescheduled(heap, disp[s].task, now, k)
            /\ disp' = [disp EXCEPT ![s] = Idle]
    ELSE /\ heap' = heap
         /\ disp' = [disp EXCEPT ![s].pc = "cleanup", ![s].h = drv]

\* The try block after `await stopAppiumSession()` returned, for result res:
\* `result.success` throws on a malformed result (here with driver = drv),
\* otherwise the task is rescheduled.
AfterStop(s, res, drv) ==
    IF res = "malformed"
    THEN Catch(s, drv)
    ELSE \E k \in JitterDraws(disp[s].task.schedule.offset) :
            /\ heap' = Rescheduled(heap, disp[s].task, now, k)
            /\ disp' = [disp EXCEPT ![s] = Idle]

\* remote(opts) resolves: `driver = await remote(opts)`; setTimeout is pending.
ConnectOk(s) ==
    /\ NoTickSuspended
    /\ disp[s].pc = "connecting"
    /\ FreshIds # {}
    /\ LET id == MinOf(FreshIds)
       IN  /\ driver' = id
           /\ remote' = [remote EXCEPT ![id] = "open"]
    /\ disp' = [disp EXCEPT ![s].pc = "configuring"]
    /\ UNCHANGED <<now, heap, initialized, registered, tickVars, auxVars, debugVars>>

\* remote(opts) rejects: startAppiumSession throws into executeTask's catch.
ConnectFail(s) ==
    /\ NoTickSuspended
    /\ disp[s].pc = "connecting"
    /\ Catch(s, driver)
    /\ UNCHANGED <<now, initialized, registered, driver, remote, tickVars, auxVars, debugVars>>

\* driver.setTimeout resolves (or no implicit timeout is configured):
\* startAppiumSession returns and task.script.execute(wrapper) is called.
ConfigOk(s) ==
    /\ NoTickSuspended
    /\ disp[s].pc = "configuring"
    /\ disp' = [disp EXCEPT ![s].pc = "executing"]
    /\ UNCHANGED <<now, heap, initialized, registered, driver, remote, tickVars, auxVars, debugVars>>

\* setTimeout rejecting with the catch block going straight to the push.
ConfigFail_skipRelease(s) ==
    /\ NoTickSuspended
    /\ disp[s].pc = "configuring"
    /\ Catch(s, Null)
    /\ UNCHANGED <<now, initialized, registered, driver, remote, tickVars, auxVars, debugVars>>

\* driver.setTimeout rejects.
ConfigFail(s) ==
    /\ NoTickSuspended
    /\ disp[s].pc = "configuring"
    /\ Catch(s, driver)
    /\ UNCHANGED <<now, initialized, registered, driver, remote, tickVars, auxVars, debugVars>>

ExecResults == {"success", "failed", "malformed"}

\* execute resolves with res; stopAppiumSession() is called.
ExecReturn(s, res) ==
    /\ NoTickSuspended
    /\ disp[s].pc = "executing"
    /\ IF driver = Null
       THEN AfterStop(s, res, driver)
       ELSE /\ disp' = [disp EXCEPT ![s].pc = "stopping", ![s].h = driver, ![s].res = res]
            /\ heap' = heap
    /\ UNCHANGED <<now, initialized, registered, driver, remote, tickVars, auxVars, debugVars>>

\* execute rejects.
ExecThrow(s) ==
    /\ NoTickSuspended
    /\ disp[s].pc = "executing"
    /\ Catch(s, driver)
    /\ UNCHANGED <<now, initialized, registered, driver, remote, tickVars, auxVars, debugVars>>

\* stopAppiumSession in the try block: deleteSession resolves, `driver = null`.
StopOk(s) ==
    /\ NoTickSuspended
    /\ disp[s].pc = "stopping"
    /\ remote[disp[s].h] = "open"
    /\ remote' = [remote EXCEPT ![disp[s].h] = "none"]
    /\ driver' = Null
    /\ AfterStop(s, disp[s].res, Null)
    /\ UNCHANGED <<now, initialized, registered, tickVars, auxVars, debugVars>>

\* stopAppiumSession in the try block: deleteSession rejects.
StopFail(s) ==
    /\ NoTickSuspended
    /\ disp[s].pc = "stopping"
    /\ Catch(s, driver)
    /\ UNCHANGED <<now, initialized, registered, driver, remote, tickVars, auxVars, debugVars>>

\* The catch block pushing the task back with the nextRun it had.
CleanupDone_stale(s) ==
    /\ heap' = push(heap, disp[s].task)
    /\ disp' = [disp EXCEPT ![s] = Idle]

\* The task is pushed back after the catch block's stopAppiumSession settled.
CleanupDone(s) ==
    \E k \in JitterDraws(disp[s].task.schedule.offset) :
        /\ heap' = Rescheduled(heap, disp[s].task, now, k)
        /\ disp' = [disp EXCEPT ![s] = Idle]

\* stopAppiumSession in the catch block: deleteSession resolves.
CleanupOk(s) ==
    /\ NoTickSuspended
    /\ disp[s].pc = "cleanup"
    /\ remote[disp[s].h] = "open"
    /\ remote' = [remote EXCEPT ![disp[s].h] = "none"]
    /\ driver' = Null
    /\ CleanupDone(s)
    /\ UNCHANGED <<now, initialized, registered, tickVars, auxVars, debugVars>>

\* The cleanup error leaving the catch block before the task is pushed back.
CleanupFail_rethrow(s) ==
    /\ NoTickSuspended
    /\ disp[s].pc = "cleanup"
    /\ disp' = [disp EXCEPT ![s] = Idle]
    /\ UNCHANGED <<now, heap, initialized, registered, driver, remote, tickVars, auxVars, debugVars>>

\* stopAppiumSession in the catch block: deleteSession rejects (error logged).
CleanupFail(s) ==
    /\ NoTickSuspended
    /\ disp[s].pc = "cleanup"
    /\ CleanupDone(s)
    /\ UNCHANGED <<now, initialized, registered, driver, remote, tickVars, auxVars, debugVars>>

\* --------------------------------------------------------------- debug.js

DebugIds == 1..MaxDebugSessions

\* Two callers of the debug module may be in flight at once: the call the
\* claims follow, whose history is recorded, and any other caller.
Observed == "call"
Reqs == {Observed, "other"}

\* debug.js:120  `retries = 1`, the default every caller in debug.js uses.
DefaultRetries == 1

NoError == [kind |-> "-", attempt |-> 0, src |-> "-"]

\* One activation of handleRequest(operation, handler, retries), of
\* checkConnection() or of closeDebugSession().
\*   h         the handle the pending remote call was issued on; in "handling"
\*             and "done" the driver the handler was (last) called with
\*   lastError handleRequest's `lastError`, tagged with its attempt and origin
\*   op        what runs: "request" handleRequest, "check" checkConnection,
\*             "close" closeDebugSession, "connect" connectSession
\* History, kept for the observed call only:
\*   res       how the handler invocation of the current attempt settled
\*   calls     handler invocations so far
\*   connects  remote() calls that resolved in the current attempt
\*   alone     no other activation ran while this one did
\*   outcome   how the operation ended: "ok" it returned its result, "refused"
\*             it returned {success: false, error}, "error" it threw
IdleReq ==
    [pc |-> "idle", op |-> "request", retries |-> 0, attempt |-> 0, h |-> Null,
     lastError |-> NoError, outcome |-> "-", res |-> "-", calls |-> 0, connects |-> 0,
     alone |-> TRUE]

\* No handleDebugAPI call made yet.
IdleApi == [pc |-> "idle", method |-> "-", action |-> "-", package |-> FALSE, reply |-> "-"]

\* server.js: a WebSocket client that has not connected yet.
\*   pc      where its connection handler or its close handler stands
\*   socket  the client's end: "none", "open" or "closed"
\*   h       the handle the pending remote call was issued on
\*   res     how deleteSession() of its close handler settled
Clients == 1..MaxClients
IdleWs == [pc |-> "none", socket |-> "none", h |-> Null, res |-> "-"]

DebugInit ==
    /\ debugDriver = Null
    /\ dremote = [i \in DebugIds |-> "none"]
    /\ req = [r \in Reqs |-> IdleReq]
    /\ api = IdleApi
    /\ ws = [c \in Clients |-> IdleWs]
    /\ connections = {}

Active(q) == q.pc \notin {"idle", "done"}

DUsedIds == {i \in DebugIds : dremote[i] # "none" \/ debugDriver = i}
DFreshIds == DebugIds \ DUsedIds

\* Remote sessions that were connected and not yet disconnected.
DOpenSessions == {i \in DebugIds : dremote[i] # "none"}

\* debug.js:132-134: the message contains one of the crash signatures.
isSessionCrash(err) == err.kind = "crash"

\* getDebugDriver() up to its first pending await, for activation q:
\* with a handle, debugDriver.status() is pending; without, remote(wdOpts).
GetDebugDriverEnter(q, drv) ==
    IF drv # Null
    THEN [q EXCEPT !.pc = "status", !.h = drv, !.connects = 0, !.res = "-"]
    ELSE [q EXCEPT !.pc = "connecting", !.h = Null, !.connects = 0, !.res = "-"]

\* Activation r starts in local state q; the observed call is alone as long
\* as no other activation runs beside it.
Started(r, q) ==
    [x \in Reqs |->
        IF x = r
        THEN [q EXCEPT !.alone = (r = Observed) => \A y \in Reqs \ {r} : ~Active(req[y])]
        ELSE IF x = Observed /\ Active(req[x]) THEN [req[x] EXCEPT !.alone = FALSE]
        ELSE req[x]]

\* handleRequest is called with `retries` = n: attempt 0 enters getDebugDriver.
StartRequest(r, n) ==
    /\ ~Active(req[r])
    /\ r # Observed => n = DefaultRetries
    /\ req' = Started(r, GetDebugDriverEnter([IdleReq EXCEPT !.retries = n], debugDriver))
    /\ UNCHANGED <<debugDriver, dremote, schedVars, auxVars>>

\* The remote instrumentation of session i dies; the session stays
\* registered with the server until it is deleted.
DebugCrash(i) ==
    /\ dremote[i] = "open"
    /\ dremote' = [dremote EXCEPT ![i] = "crashed"]
    /\ UNCHANGED <<debugDriver, req, schedVars, auxVars>>

\* `lastError = error`.
Noted(r, q, err) == IF r = Observed THEN [q EXCEPT !.lastError = err] ELSE q

\* handleRequest returns or throws; the observed call's record is kept.
Finished(r, q, outcome) ==
    IF r = Observed THEN [q EXCEPT !.pc = "done", !.outcome = outcome] ELSE IdleReq

\* The catch block throwing every error that is not a crash with retries left.
Caught_surfaceAtOnce(r, q, err, drv) ==
    IF isSessionCrash(err) /\ q.attempt < q.retries
    THEN /\ debugDriver' = Null
         /\ req' = [req EXCEPT ![r] = [Noted(r, q, err) EXCEPT !.pc = "backoff"]]
    ELSE /\ debugDriver' = drv
         /\ req' = [req EXCEPT ![r] = Finished(r, Noted(r, q, err), "error")]

\* The catch block going round the loop once more after the last attempt.
Caught_offByOne(r, q, err, drv) ==
    IF isSessionCrash(err) /\ q.attempt < q.retries
    THEN /\ debugDriver' = Null
         /\ req' = [req EXCEPT ![r] = [Noted(r, q, err) EXCEPT !.pc = "backoff"]]
    ELSE IF q.attempt = q.retries + 1
    THEN /\ debugDriver' = drv
         /\ req' = [req EXCEPT ![r] = Finished(r, Noted(r, q, err), "error")]
    ELSE /\ debugDriver' = drv
         /\ req' = [req EXCEPT ![r] =
                       GetDebugDriverEnter([Noted(r, q, err) EXCEPT !.attempt = q.attempt + 1],
                                           drv)]

\* handleRequest's catch block (debug.js:127-150) for activation r in local
\* state q, error err, with `debugDriver` = drv when the error is caught.
\*  - crash signature and retries left: discard the handle, wait 1000 ms;
\*  - last attempt: throw the error;
\*  - otherwise the for-loop goes on: next attempt, getDebugDriver at once.
Caught(r, q, err, drv) ==
    IF isSessionCrash(err) /\ q.attempt < q.retries
    THEN /\ debugDriver' = Null
         /\ req' = [req EXCEPT ![r] = [Noted(r, q, err) EXCEPT !.pc = "backoff"]]
    ELSE IF q.attempt = q.retries
    THEN /\ debugDriver' = drv
         /\ req' = [req EXCEPT ![r] = Finished(r, Noted(r, q, err), "error")]
    ELSE /\ debugDriver' = drv
         /\ req' = [req EXCEPT ![r] =
                       GetDebugDriverEnter([Noted(r, q, err) EXCEPT !.attempt = q.attempt + 1],
                                           drv)]

\* The 1000 ms timer fires: `continue`, next attempt.
BackoffDone(r) ==
    /\ req[r].pc = "backoff"
    /\ req' = [req EXCEPT ![r] =
                  GetDebugDriverEnter([req[r] EXCEPT !.attempt = req[r].attempt + 1],
                                      debugDriver)]
    /\ UNCHANGED <<debugDriver, dremote, schedVars, auxVars>>

\* getDebugDriver returned the current `debugDriver`: handleRequest calls
\* handler(driver); connectSession returns 'Connected successfully'.
CallHandler(r, q, drv) ==
    IF q.op = "connect"
    THEN Finished(r, [q EXCEPT !.h = drv], "ok")
    ELSE [q EXCEPT !.pc = "handling", !.h = drv,
                   !.calls = IF r = Observed THEN q.calls + 1 ELSE 0]

\* getDebugDriver throws err to its caller: connectSession's catch block
\* (debug.js:95-98) returns {success: false, error}; handleRequest's decides
\* about a retry.
Thrown(r, q, err, drv) ==
    IF q.op = "connect"
    THEN /\ debugDriver' = drv
         /\ req' = [req EXCEPT ![r] = Finished(r, Noted(r, q, err), "refused")]
    ELSE Caught(r, q, err, drv)

\* status() settles and the handle is returned whether it resolved or not.
StatusOk_ignoreResult(r) ==
    /\ req[r].pc = "status"
    /\ req' = [req EXCEPT ![r] = CallHandler(r, req[r], debugDriver)]
    /\ UNCHANGED <<debugDriver, dremote, schedVars, auxVars>>

\* debugDriver.status() resolves: `return debugDriver`.
StatusOk(r) ==
    /\ req[r].pc = "status"
    /\ dremote[req[r].h] = "open"
    /\ req' = [req EXCEPT ![r] = CallHandler(r, req[r], debugDriver)]
    /\ UNCHANGED <<debugDriver, dremote, schedVars, auxVars>>

\* debugDriver.status() rejects: deleteSession() is called on the current
\* `debugDriver` (a TypeError on null is ignored), then the handle is cleared
\* and remote(wdOpts) called.
StatusFail(r) ==
    /\ req[r].pc = "status"
    /\ dremote[req[r].h] # "open"
    /\ IF debugDriver = Null
       THEN req' = [req EXCEPT ![r].pc = "connecting", ![r].h = Null]
       ELSE req' = [req EXCEPT ![r].pc = "deleting", ![r].h = debugDriver]
    /\ UNCHANGED <<debugDriver, dremote, schedVars, auxVars>>

\* deleteSession() of the old session settles (errors ignored):
\* `debugDriver = null`, then remote(wdOpts) is called.
DeleteSettled(r, ok) ==
    /\ req[r].pc = "deleting"
    /\ ok => dremote[req[r].h] # "none"
    /\ dremote' = IF ok THEN [dremote EXCEPT ![req[r].h] = "none"] ELSE dremote
    /\ debugDriver' = Null
    /\ req' = [req EXCEPT ![r].pc = "connecting", ![r].h = Null]
    /\ UNCHANGED <<schedVars, auxVars>>

\* remote(wdOpts) resolves: `debugDriver = await remote(wdOpts)`; setTimeout
\* is pending.
DebugConnectOk(r) ==
    /\ req[r].pc = "connecting"
    /\ DFreshIds # {}
    /\ LET id == MinOf(DFreshIds)
       IN  /\ debugDriver' = id
           /\ dremote' = [dremote EXCEPT ![id] = "open"]
           /\ req' = [req EXCEPT ![r].pc = "configuring", ![r].h = id,
                                 ![r].connects = IF r = Observed
                                                 THEN req[r].connects + 1 ELSE 0]
    /\ UNCHANGED <<schedVars, auxVars>>

ErrorKinds == {"crash", "other"}

\* remote(wdOpts) rejects; the error reaches handleRequest's catch block.
DebugConnectFail(r, kind) ==
    /\ req[r].pc = "connecting"
    /\ Thrown(r, req[r], [kind |-> kind, attempt |-> req[r].attempt, src |-> "connect"],
              debugDriver)
    /\ UNCHANGED <<dremote, schedVars, auxVars>>

\* debugDriver.setTimeout resolves (or none is configured): getDebugDriver
\* returns the current `debugDriver`.
DebugConfigOk(r) ==
    /\ req[r].pc = "configuring"
    /\ req' = [req EXCEPT ![r] = CallHandler(r, req[r], debugDriver)]
    /\ UNCHANGED <<debugDriver, dremote, schedVars, auxVars>>

\* debugDriver.setTimeout rejects.
DebugConfigFail(r, kind) ==
    /\ req[r].pc = "configuring"
    /\ Thrown(r, req[r], [kind |-> kind, attempt |-> req[r].attempt, src |-> "connect"],
              debugDriver)
    /\ UNCHANGED <<dremote, schedVars, auxVars>>

\* How the handler's settling is recorded for the observed call.
Settled(r, q, res) == IF r = Observed THEN [q EXCEPT !.res = res] ELSE q

\* The handler resolves but its result is not returned: the loop goes on and
\* ends in `throw lastError`.
HandlerOk_dropResult(r) ==
    /\ req[r].pc = "handling"
    /\ req[r].h # Null
    /\ dremote[req[r].h] = "open"
    /\ IF req[r].attempt = req[r].retries
       THEN req' = [req EXCEPT ![r] = Finished(r, Settled(r, req[r], "ok"), "error")]
       ELSE req' = [req EXCEPT ![r] =
                       GetDebugDriverEnter([req[r] EXCEPT !.attempt = req[r].attempt + 1],
                                           debugDriver)]
    /\ UNCHANGED <<debugDriver, dremote, schedVars, auxVars>>

\* The handler resolves: handleRequest returns its result.
HandlerOk(r) ==
    /\ req[r].pc = "handling"
    /\ req[r].h # Null
    /\ dremote[req[r].h] = "open"
    /\ req' = [req EXCEPT ![r] = Finished(r, Settled(r, req[r], "ok"), "ok")]
    /\ UNCHANGED <<debugDriver, dremote, schedVars, auxVars>>

\* The error a failing handler raises on handle h: a TypeError on a null
\* driver, an ordinary failure on a healthy session, a crash-signature error
\* on a session that crashed or was deleted.
HandlerErrorKind(h) ==
    IF h = Null THEN "other"
    ELSE IF dremote[h] = "open" THEN "other" ELSE "crash"

\* The handler rejects.
HandlerFail(r) ==
    /\ req[r].pc = "handling"
    /\ Caught(r, Settled(r, req[r], HandlerErrorKind(req[r].h)),
              [kind |-> HandlerErrorKind(req[r].h), attempt |-> req[r].attempt,
               src |-> "handler"], debugDriver)
    /\ UNCHANGED <<dremote, schedVars, auxVars>>

\* checkConnection() is called: without a handle it returns at once,
\* otherwise debugDriver.status() is pending.
CheckConnectionStart(r) ==
    /\ ~Active(req[r])
    /\ debugDriver # Null
    /\ req' = Started(r, [IdleReq EXCEPT !.pc = "checking", !.h = debugDriver, !.op = "check"])
    /\ UNCHANGED <<debugDriver, dremote, schedVars, auxVars>>

\* checkConnection(): status() resolves, {connected: true} is returned;
\* connectSession then returns 'Already connected'.
CheckConnectionOk(r) ==
    /\ req[r].pc = "checking"
    /\ dremote[req[r].h] = "open"
    /\ req' = [req EXCEPT ![r] = Finished(r, req[r], "ok")]
    /\ UNCHANGED <<debugDriver, dremote, schedVars, auxVars>>

\* checkConnection(): status() rejects, `debugDriver = null` and
\* {connected: false} is returned; connectSession then calls getDebugDriver.
CheckConnectionFail(r) ==
    /\ req[r].pc = "checking"
    /\ dremote[req[r].h] # "open"
    /\ debugDriver' = Null
    /\ req' = [req EXCEPT ![r] = IF req[r].op = "connect"
                                 THEN GetDebugDriverEnter(req[r], Null)
                                 ELSE Finished(r, req[r], "ok")]
    /\ UNCHANGED <<dremote, schedVars, auxVars>>

\* closeDebugSession() is called with a handle: deleteSession() is pending.
CloseStart(r) ==
    /\ ~Active(req[r])
    /\ debugDriver # Null
    /\ req' = Started(r, [IdleReq EXCEPT !.pc = "closing", !.h = debugDriver, !.op = "close"])
    /\ UNCHANGED <<debugDriver, dremote, schedVars, auxVars>>

\* closeDebugSession() clearing the handle only after a deleteSession() that
\* resolved.
CloseSettled_keepOnError(r, ok) ==
    /\ req[r].pc = "closing"
    /\ ok => dremote[req[r].h] # "none"
    /\ dremote' = IF ok THEN [dremote EXCEPT ![req[r].h] = "none"] ELSE dremote
    /\ debugDriver' = IF ok THEN Null ELSE debugDriver
    /\ req' = [req EXCEPT ![r] = Finished(r, Settled(r, req[r], IF ok THEN "ok" ELSE "other"),
                                          "ok")]
    /\ UNCHANGED <<schedVars, auxVars>>

\* closeDebugSession(): deleteSession() settles, an error is logged;
\* finally `debugDriver = null`, and the function returns.
CloseSettled(r, ok) ==
    /\ req[r].pc = "closing"
    /\ ok => dremote[req[r].h] # "none"
    /\ dremote' = IF ok THEN [dremote EXCEPT ![req[r].h] = "none"] ELSE dremote
    /\ debugDriver' = Null
    /\ req' = [req EXCEPT ![r] = Finished(r, Settled(r, req[r], IF ok THEN "ok" ELSE "other"),
                                          "ok")]
    /\ UNCHANGED <<schedVars, auxVars>>

\* ---------------------------------------------------- debug.js: handleDebugAPI

\* What a caller may send.
ApiMethods == {"GET", "POST", "PUT"}
ApiActions == {"dump", "screenshot", "activity", "packages", "activities", "status",
               "click", "launch", "connect", "disconnect", "reboot"}

\* The answers handleDebugAPI gives without calling anything.
ApiErrors == {"Package name required", "Unknown action", "Invalid method"}

\* The two switch statements (debug.js:352-387): the function the call is
\* handed to, or the error it is answered with.  `package`: query.package is
\* given.  getUIDump, takeScreenshot, getCurrentActivity, getAllPackages,
\* getPackageActivities, clickAtCoordinates and launchApp are handleRequest
\* with their own handler.
Route(method, action, package) ==
    IF method = "GET"
    THEN IF action \in {"dump", "screenshot", "activity", "packages"} THEN "handleRequest"
         ELSE IF action = "activities"
         THEN IF ~package THEN "Package name required" ELSE "handleRequest"
         ELSE IF action = "status" THEN "checkConnection"
         ELSE "Unknown action"
    ELSE IF method = "POST"
    THEN IF action \in {"click", "launch"} THEN "handleRequest"
         ELSE IF action = "connect" THEN "connectSession"
         ELSE IF action = "disconnect" THEN "closeDebugSession"
         ELSE "Unknown action"
    ELSE "Invalid method"

\* The operation `route` up to its first pending await, or to its return
\* when it has nothing to wait for (pc "done").
Entered(route) ==
    IF route = "handleRequest"
    THEN GetDebugDriverEnter([IdleReq EXCEPT !.retries = DefaultRetries], debugDriver)
    ELSE IF route = "checkConnection"
    THEN IF debugDriver = Null
         THEN [IdleReq EXCEPT !.op = "check", !.pc = "done", !.outcome = "ok"]
         ELSE [IdleReq EXCEPT !.op = "check", !.pc = "checking", !.h = debugDriver]
    ELSE IF route = "connectSession"
    THEN IF debugDriver = Null
         THEN GetDebugDriverEnter([IdleReq EXCEPT !.op = "connect"], Null)
         ELSE [IdleReq EXCEPT !.op = "connect", !.pc = "checking", !.h = debugDriver]
    ELSE IF debugDriver = Null
         THEN [IdleReq EXCEPT !.op = "close", !.pc = "done", !.outcome = "ok"]
         ELSE [IdleReq EXCEPT !.op = "close", !.pc = "closing", !.h = debugDriver]

\* What handleDebugAPI returns for an operation that ended with `outcome`,
\* the operation's error going out uncaught.
Answer_noCatch(outcome) ==
    IF outcome = "ok" THEN "value"
    ELSE IF outcome = "refused" THEN "failure"
    ELSE "raised"

\* What handleDebugAPI returns for an operation that ended with `outcome`:
\* the operation's result as it is, and {success: false, error: message} for
\* whatever it threw (debug.js:388-390).
Answer(outcome) ==
    IF outcome = "ok" THEN "value"
    ELSE "failure"

\* handleDebugAPI(method, action, query, body) is called, the call before it
\* answered.
ApiCall(method, action, package) ==
    /\ api.pc # "pending"
    /\ LET route == Route(method, action, package)
           call  == [pc |-> "pending", method |-> method, action |-> action,
                     package |-> package, reply |-> "-"]
       IN  IF route \in ApiErrors
           THEN /\ api' = [call EXCEPT !.pc = "replied", !.reply = "failure"]
                /\ UNCHANGED req
           ELSE IF Entered(route).pc = "done"
           THEN /\ api' = [call EXCEPT !.pc = "replied",
                                       !.reply = Answer(Entered(route).outcome)]
                /\ req' = [req EXCEPT ![Observed] = Entered(route)]
           ELSE /\ api' = call
                /\ req' = Started(Observed, Entered(route))
    /\ UNCHANGED <<debugDriver, dremote, schedVars, calcVars, status, ws, connections>>

\* The operation handleDebugAPI awaits has ended.
ApiReturn ==
    /\ api.pc = "pending"
    /\ req[Observed].pc = "done"
    /\ api' = [api EXCEPT !.pc = "replied", !.reply = Answer(req[Observed].outcome)]
    /\ UNCHANGED <<debugVars, schedVars, calcVars, status, ws, connections>>

\* ------------------------------------------------- server.js: WebSocket clients

\* What the WebSocket handlers leave alone.
wsRest == <<req, schedVars, calcVars, status, api>>

\* The connection handler of client c ends: its 'message', 'close' and
\* 'error' listeners are registered (from pc "ready" on); when getDebugDriver
\* returned, the client was entered in `connections` before.
Registered(c, entered) ==
    /\ ws' = [ws EXCEPT ![c].pc = "ready", ![c].h = debugDriver]
    /\ connections' = IF entered THEN connections \cup {c} ELSE connections

\* wss 'connection': client c connects, the handler calls getDebugDriver():
\* with a handle, debugDriver.status() is pending; without, remote(wdOpts).
WsConnect(c) ==
    /\ ws[c].pc = "none"
    /\ ws' = [ws EXCEPT ![c] = IF debugDriver # Null
                               THEN [IdleWs EXCEPT !.pc = "status", !.socket = "open",
                                                   !.h = debugDriver]
                               ELSE [IdleWs EXCEPT !.pc = "connecting", !.socket = "open"]]
    /\ UNCHANGED <<debugDriver, dremote, connections, wsRest>>

\* debugDriver.status() resolves: getDebugDriver returns the handle.
WsStatusOk(c) ==
    /\ ws[c].pc = "status"
    /\ dremote[ws[c].h] = "open"
    /\ Registered(c, TRUE)
    /\ UNCHANGED <<debugDriver, dremote, wsRest>>

\* debugDriver.status() rejects: deleteSession() is called on the current
\* `debugDriver` (a TypeError on null is ignored).
WsStatusFail(c) ==
    /\ ws[c].pc = "status"
    /\ dremote[ws[c].h] # "open"
    /\ IF debugDriver = Null
       THEN ws' = [ws EXCEPT ![c].pc = "connecting", ![c].h = Null]
       ELSE ws' = [ws EXCEPT ![c].pc = "deleting", ![c].h = debugDriver]
    /\ UNCHANGED <<debugDriver, dremote, connections, wsRest>>

\* deleteSession() of the old session settles (errors ignored):
\* `debugDriver = null`, then remote(wdOpts) is called.
WsDeleteSettled(c, ok) ==
    /\ ws[c].pc = "deleting"
    /\ ok => dremote[ws[c].h] # "none"
    /\ dremote' = IF ok THEN [dremote EXCEPT ![ws[c].h] = "none"] ELSE dremote
    /\ debugDriver' = Null
    /\ ws' = [ws EXCEPT ![c].pc = "connecting", ![c].h = Null]
    /\ UNCHANGED <<connections, wsRest>>

\* remote(wdOpts) resolves: `debugDriver = await remote(wdOpts)`; setTimeout
\* is pending.
WsConnectOk(c) ==
    /\ ws[c].pc = "connecting"
    /\ DFreshIds # {}
    /\ LET id == MinOf(DFreshIds)
       IN  /\ debugDriver' = id
           /\ dremote' = [dremote EXCEPT ![id] = "open"]
           /\ ws' = [ws EXCEPT ![c].pc = "configuring", ![c].h = id]
    /\ UNCHANGED <<connections, wsRest>>

\* remote(wdOpts) rejects: the handler's catch block reports the error to
\* the client.
WsConnectFail(c) ==
    /\ ws[c].pc = "connecting"
    /\ debugDriver' = debugDriver
    /\ Registered(c, FALSE)
    /\ UNCHANGED <<dremote, wsRest>>

\* debugDriver.setTimeout resolves: getDebugDriver returns the current
\* `debugDriver`.
WsConfigOk(c) ==
    /\ ws[c].pc = "configuring"
    /\ debugDriver' = debugDriver
    /\ Registered(c, TRUE)
    /\ UNCHANGED <<dremote, wsRest>>

\* debugDriver.setTimeout rejects.
WsConfigFail(c) ==
    /\ ws[c].pc = "configuring"
    /\ debugDriver' = debugDriver
    /\ Registered(c, FALSE)
    /\ UNCHANGED <<dremote, wsRest>>

\* Client c closes its socket.  With the 'close' listener registered, the
\* handler removes the client from `connections` and, when the map is empty,
\* calls closeDebugSession(): with a handle, deleteSession() is pending.
\* While the connection handler still awaits getDebugDriver() there is no
\* listener, and the event is lost.
WsDisconnect(c) ==
    /\ ws[c].socket = "open"
    /\ IF ws[c].pc = "ready"
       THEN /\ connections' = connections \ {c}
            /\ ws' = [ws EXCEPT ![c].socket = "closed",
                                ![c].pc = IF connections' = {} /\ debugDriver # Null
                                          THEN "closing" ELSE "closed",
                                ![c].h = IF connections' = {} THEN debugDriver ELSE Null]
       ELSE /\ ws' = [ws EXCEPT ![c].socket = "closed"]
            /\ UNCHANGED connections
    /\ UNCHANGED <<debugDriver, dremote, wsRest>>

\* closeDebugSession() of the close handler: deleteSession() settles;
\* finally `debugDriver = null`.
WsCloseSettled(c, ok) ==
    /\ ws[c].pc = "closing"
    /\ ok => dremote[ws[c].h] # "none"
    /\ dremote' = IF ok THEN [dremote EXCEPT ![ws[c].h] = "none"] ELSE dremote
    /\ debugDriver' = Null
    /\ ws' = [ws EXCEPT ![c].pc = "closed", ![c].res = IF ok THEN "ok" ELSE "other"]
    /\ UNCHANGED <<connections, wsRest>>

\* ------------------------------------------------------------- CalcSpec

CalcInputs ==
    {c \in [t : {i * ClockStep : i \in 0..MaxCalcSteps}, period : 1..MaxPeriod,
            position : 0..(MaxPeriod - 1), offset : 0..MaxJitter,
            k : 0..(2 * MaxJitter), out : {-1}] :
        c.position < c.period /\ c.k \in JitterDraws(c.offset)}

CalcInit == SchedInit /\ DebugInit /\ calc \in CalcInputs /\ broken = {}

\* calculateNextRun(period, position, offset) is called.
CalcApply ==
    /\ calc.out = -1
    /\ calc' = [calc EXCEPT !.out =
                  calculateNextRun(calc.t, calc.period, calc.position, calc.offset, calc.k)]
    /\ UNCHANGED <<schedVars, debugVars, ops, status, frontVars>>

\* calculateNextRun is not being applied.
CalcIdle == calc = CHOOSE c \in CalcInputs : TRUE

\* ------------------------------------------------------------- HeapSpec

HeapInit == SchedInit /\ DebugInit /\ CalcIdle /\ broken = {}

\* heap.push(e)
HeapPush(e) ==
    /\ BagCardinality(ops.pushed) < MaxPushes
    /\ heap' = push(heap, e)
    /\ ops' = [ops EXCEPT !.pushed = @ (+) SetToBag({e})]
    /\ UNCHANGED <<now, initialized, registered, disp, driver, remote, tickVars,
                   calc, status, debugVars, frontVars>>

\* heap.pop(): null on an empty heap, the root otherwise.
HeapPop ==
    /\ heap' = popHeap(heap)
    /\ ops' = IF size(heap) = 0 THEN [ops EXCEPT !.last = NoTask]
               ELSE [ops EXCEPT !.last = peek(heap), !.popped = @ (+) SetToBag({peek(heap)})]
    /\ UNCHANGED <<now, initialized, registered, disp, driver, remote, tickVars,
                   calc, status, debugVars, frontVars>>

HeapNext == (\E e \in HeapItems : HeapPush(e)) \/ HeapPop

\* ------------------------------------------------------- specifications

vars == <<schedVars, auxVars, debugVars>>

\* In Spec the scripts that load have distinct names: the files "C" and "P"
\* are broken, and "A" or "B" may be.
Init ==
    /\ SchedInit /\ DebugInit /\ CalcIdle
    /\ broken \in {{"C", "P"}, {"A", "C", "P"}, {"B", "C", "P"}}

Next ==
    \/ Advance
    \/ Tick
    \/ TickCold
    \/ TickColdFail
    \/ TickResume
    \/ \E s \in Slots :
        \/ ConnectOk(s)
        \/ ConnectFail(s)
        \/ ConfigOk(s)
        \/ ConfigFail(s)
        \/ \E res \in ExecResults : ExecReturn(s, res)
        \/ ExecThrow(s)
        \/ StopOk(s)
        \/ StopFail(s)
        \/ CleanupOk(s)
        \/ CleanupFail(s)

Spec == Init /\ [][Next]_vars

\* The scheduler with the health of its remote session made visible: a
\* session may die at any time while the scheduler holds it.
CrashNext == Next \/ \E i \in SessionIds : SessionCrash(i)

CrashSpec == Init /\ [][CrashNext]_vars

CalcSpec == CalcInit /\ [][CalcApply]_vars

HeapSpec == HeapInit /\ [][HeapNext]_vars

\* Registry population with any set of broken files among scripts with
\* distinct names (the copy "C" does not load).
PopulateInit ==
    /\ SchedInit /\ DebugInit /\ CalcIdle
    /\ broken \in {b \in SUBSET Units : "C" \in b}

PopulateNext == Advance \/ TickCold \/ TickColdFail \/ TickResume

PopulateSpec == PopulateInit /\ [][PopulateNext]_vars

\* Registry population when the copy "C" loads as well.
NamesInit ==
    /\ SchedInit /\ DebugInit /\ CalcIdle
    /\ broken \in {b \in SUBSET Units : "C" \notin b}

NamesSpec == NamesInit /\ [][PopulateNext]_vars

\* Registry population with status queries made at any time.
StatusNext == Advance \/ TickCold \/ TickColdFail \/ TickResume \/ PostStatus

StatusSpec == PopulateInit /\ [][StatusNext]_vars

DebugStep(r) ==
    \/ BackoffDone(r)
    \/ StatusOk(r)
    \/ StatusFail(r)
    \/ \E ok \in BOOLEAN : DeleteSettled(r, ok)
    \/ DebugConnectOk(r)
    \/ \E kind \in ErrorKinds : DebugConnectFail(r, kind)
    \/ DebugConfigOk(r)
    \/ \E kind \in ErrorKinds : DebugConfigFail(r, kind)
    \/ HandlerOk(r)
    \/ HandlerFail(r)
    \/ CheckConnectionOk(r)
    \/ CheckConnectionFail(r)
    \/ \E ok \in BOOLEAN : CloseSettled(r, ok)

DebugNext ==
    \/ \E r \in Reqs : \E n \in 0..MaxRetries : StartRequest(r, n)
    \/ CheckConnectionStart("other")
    \/ CloseStart("other")
    \/ \E r \in Reqs : DebugStep(r)
    \/ \E i \in DebugIds : DebugCrash(i)

DebugSpecInit == SchedInit /\ DebugInit /\ CalcIdle /\ broken = {}

DebugSpec == DebugSpecInit /\ [][DebugNext]_vars

\* Every pending remote call and timer of a running activation settles.
DebugFairSpec == DebugSpec /\ \A r \in Reqs : WF_vars(DebugStep(r))


\* handleDebugAPI called again and again, each call after the answer to the
\* one before, on sessions that may die.
ApiNext ==
    \/ \E m \in ApiMethods : \E a \in ApiActions : \E p \in BOOLEAN : ApiCall(m, a, p)
    \/ ApiReturn
    \/ DebugStep(Observed)
    \/ \E i \in DebugIds : DebugCrash(i)

ApiSpec == DebugSpecInit /\ [][ApiNext]_vars

\* WebSocket clients connecting and leaving in any order, on sessions that
\* may die.
WsNext ==
    \/ \E c \in Clients :
          \/ WsConnect(c)
          \/ WsStatusOk(c)
          \/ WsStatusFail(c)
          \/ \E ok \in BOOLEAN : WsDeleteSettled(c, ok)
          \/ WsConnectOk(c)
          \/ WsConnectFail(c)
          \/ WsConfigOk(c)
          \/ WsConfigFail(c)
          \/ WsDisconnect(c)
          \/ \E ok \in BOOLEAN : WsCloseSettled(c, ok)
    \/ \E i \in DebugIds : DebugCrash(i)

WsSpec == DebugSpecInit /\ [][WsNext]_vars

\* A step of the dispatch in slot s: a session call or execute() settling.
SlotStep(s) ==
    \/ ConnectOk(s)
    \/ ConnectFail(s)
    \/ ConfigOk(s)
    \/ ConfigFail(s)
    \/ \E res \in ExecResults : ExecReturn(s, res)
    \/ ExecThrow(s)
    \/ StopOk(s)
    \/ StopFail(s)
    \/ CleanupOk(s)
    \/ CleanupFail(s)

\* The fair specifications follow a process started FairStartSteps clock
\* steps into the modelled window, with the files "C" and "P" broken.
FairInit ==
    /\ SchedInitAt(FairStartSteps * ClockStep) /\ DebugInit /\ CalcIdle
    /\ broken = {"C", "P"}

\* The scheduler is triggered again and again, and every session call and
\* every execute() eventually settles.
FairSpec ==
    /\ FairInit /\ [][Next]_vars
    /\ WF_vars(Tick)
    /\ WF_vars(TickResume)
    /\ \A s \in Slots : WF_vars(SlotStep(s))

\* The unit whose execute() may never settle.
Hung == "A"

\* As FairSpec, except that nothing makes execute() of Hung settle.
HangFairSpec ==
    /\ FairInit /\ [][Next]_vars
    /\ WF_vars(Tick)
    /\ WF_vars(TickResume)
    /\ \A s \in Slots :
          WF_vars(SlotStep(s) /\ ~(disp[s].pc = "executing" /\ disp[s].task.name = Hung))

\* ------------------------------------------------------- scheduler claims

Dispatched(u) == {s \in Slots : disp[s].pc # "idle" /\ disp[s].task.name = u}

\* C1: every registered task is accounted for exactly once, either as one heap
\* entry or as one dispatch in flight (popped and not yet pushed back); a
\* unit that was not registered is in neither.
C1_TaskAccountedOnce ==
    \A u \in Units :
        Cardinality(InHeap(heap, u)) + Cardinality(Dispatched(u))
            = (IF u \in registered THEN 1 ELSE 0)

\* Both tasks are in flight at once, one in the catch block after a failure,
\* the other in the try block's stopAppiumSession.
C1_Witness ==
    /\ registered = {"A", "B"}
    /\ heap = <<>>
    /\ \E s, t \in Slots : disp[s].pc = "cleanup" /\ disp[t].pc = "stopping"

\* C2: when a dispatch completes (any outcome), its task is in the heap
\* exactly once and its new nextRun is later than the time the dispatch began.
C2_RescheduledAfterStart ==
    [][\A s \in Slots :
          (disp[s].pc # "idle" /\ disp'[s].pc = "idle") =>
             /\ Cardinality(InHeap(heap', disp[s].task.name)) = 1
             /\ \A i \in InHeap(heap', disp[s].task.name) :
                   heap'[i].nextRun > disp[s].began]_vars

\* C4: concurrent acquires that found no session share one connect: at most
\* one remote() call is pending at any time.
C4_SingleFlight ==
    Cardinality({s \in Slots : disp[s].pc = "connecting"}) <= 1

\* C10: while a task's execute is running, no other dispatch's completion
\* tears the shared session down.
C10_NoTeardownWhileExecuting ==
    [][\A s \in Slots :
          (disp[s].pc = "executing" /\ disp'[s].pc = "executing" /\ driver # Null)
             => driver' # Null]_vars

\* C11: startAppiumSession returns the existing handle only if it is healthy:
\* a dispatch is handed the existing handle (and goes straight to execute)
\* only when that handle's remote session is alive.
C11_AcquireHealthy ==
    [][\A s \in Slots :
          (disp[s].pc = "idle" /\ disp'[s].pc = "executing")
             => remote[driver] = "open"]_vars

\* C12: when a dispatch completes (any outcome) with no other dispatch in
\* flight, the shared session handle is absent.
C12_SessionClosedAfterDispatch ==
    [][\A s \in Slots :
          (/\ disp[s].pc # "idle"
           /\ disp'[s].pc = "idle"
           /\ \A t \in Slots \ {s} : disp[t].pc = "idle")
             => driver' = Null]_vars

\* The slots in which the step starts a dispatch of unit u.
StartedNow(u) ==
    {s \in Slots : disp[s].pc = "idle" /\ disp'[s].pc # "idle" /\ disp'[s].task.name = u}

\* The heap entries of unit u that are due.
DueEntries(u) == {i \in InHeap(heap, u) : heap[i].nextRun <= now}

\* C16: under overlapping checkAndExecuteTasks calls, a cold first call
\* included, every unit is in the heap or in flight at most once, the units
\* are loaded once only, and a step that dispatches takes every due entry out
\* of the heap and starts exactly one dispatch for it.
C16_TickSafe ==
    /\ [](\A u \in Units : Cardinality(InHeap(heap, u)) + Cardinality(Dispatched(u)) <= 1)
    /\ [][/\ initialized => (initialized' /\ registered' = registered)
          /\ \A u \in Units :
                /\ Cardinality(StartedNow(u)) <= 1
                /\ \A s \in StartedNow(u) :
                      /\ \E i \in DueEntries(u) : disp'[s].task = heap[i]
                      /\ InHeap(heap', u) = {}
                      /\ \A v \in Units : DueEntries(v) # {} => StartedNow(v) # {}]_vars

\* The first call found the scheduler cold and is still suspended after
\* initialize(); an overlapping call has already dispatched a due task.
C16_Witness ==
    /\ ticks > 0
    /\ initialized
    /\ \E s \in Slots : disp[s].pc # "idle"

\* C17: checkAndExecuteTasks never waits for a task: whatever the dispatches
\* in flight are doing, a call on an initialized scheduler and a call resuming
\* after initialize() can run to their end, the dispatches a call starts are
\* left pending, and the trigger has answered nothing but 204.
C17_TickNeverBlocks ==
    /\ response \in {0, 204}
    /\ initialized => ENABLED Tick
    /\ ticks > 0 => ENABLED TickResume
    /\ \A s \in Slots : disp[s].pc # "idle" => response = 204

\* The trigger answered 204 and a later call dispatched a task while a task
\* dispatched by an earlier call was still executing.
C17_Witness ==
    /\ response = 204
    /\ \E s, t \in Slots :
          /\ disp[s].pc = "executing"
          /\ disp[t].pc # "idle"
          /\ disp[t].began > disp[s].began

\* C18: a dispatch never ends in a rejection: whatever failed (connect,
\* setTimeout, execute, a malformed result, deleteSession), when the dispatch
\* ends the status snapshot lists the task exactly once, with a nextRun
\* computed at that moment, and the next tick can run.
C18_FailuresContained ==
    /\ [](initialized => ENABLED Tick)
    /\ [][\A s \in Slots :
            (disp[s].pc # "idle" /\ disp'[s].pc = "idle") =>
               LET task == disp[s].task
                   sch == task.schedule
                   snapshot == getStatus(heap', initialized').tasks
                   listed == {i \in DOMAIN snapshot : snapshot[i].name = task.name}
               IN  /\ Cardinality(listed) = 1
                   /\ \A i \in listed :
                         \E k \in JitterDraws(sch.offset) :
                            snapshot[i].nextRun =
                               toISOString(calculateNextRun(now, sch.period, sch.position,
                                                            sch.offset, k))]_vars

\* Every dispatch has ended, the last one after both disconnects failed (the
\* handle is still set), and both tasks are back in the heap.
C18_Witness ==
    /\ \A s \in Slots : disp[s].pc = "idle"
    /\ driver # Null
    /\ Names(heap) = {"A", "B"}
    /\ now > 0

\* C19: every entry initialize() puts in the heap has a valid recurrence:
\* a positive period and a position with 0 <= position < period.
C19_ValidRecurrence ==
    \A i \in 1..Len(heap) :
        /\ heap[i].schedule.period > 0
        /\ heap[i].schedule.hasPosition
        /\ 0 <= heap[i].schedule.position
        /\ heap[i].schedule.position < heap[i].schedule.period

\* The units initialize() schedules: enabled, with a period and a position.
Schedulable(u) == ~NotEnabled(ScheduleOf(u)) /\ ~InvalidConfig(ScheduleOf(u))

\* C20: whatever files fail to load, once initialize() has run the scheduler
\* holds (in the heap, or dispatched from it) exactly the other enabled units
\* with a period and a position, each once; nothing is loaded without the
\* scheduler being marked initialized.
C20_PopulateIsolated ==
    /\ heap # <<>> => initialized
    /\ initialized =>
          \A u \in Units :
              Cardinality(InHeap(heap, u)) + Cardinality(Dispatched(u))
                 = (IF u \notin broken /\ Schedulable(u) THEN 1 ELSE 0)

\* The first file failed to load; the units after it were still scheduled,
\* the disabled and the incomplete one skipped.
C20_Witness ==
    /\ initialized
    /\ broken = {"A", "C"}
    /\ Names(heap) = {"B", "P"}
    /\ size(heap) = 2

\* The entries of unit u the scheduler holds: in the heap or dispatched.
Held(u) == Cardinality(InHeap(heap, u)) + Cardinality(Dispatched(u))

\* C21: once initialize() has succeeded, `initialized` stays true and no call
\* loads anything: every step of an initialized scheduler keeps the registered
\* units and, for each unit, the number of entries the scheduler holds.
C21_PopulateOnce ==
    [][initialized =>
          /\ initialized'
          /\ registered' = registered
          /\ \A u \in Units : Held(u)' = Held(u)]_vars

\* The scheduler is initialized and two calls made at different times have
\* each dispatched one of the two loaded units.
C21_Witness ==
    /\ initialized
    /\ registered = {"A", "B"}
    /\ \E s \in Dispatched("A"), t \in Dispatched("B") : disp[s].began # disp[t].began

\* C22: when readdirSync throws, the call still runs to its end and the
\* trigger answers 204, `initialized` stays false with an empty heap and no
\* registered unit, and the next call can populate again; a population that
\* succeeds afterwards holds each loadable unit once.
C22_PopulateFailsWhole ==
    /\ ~initialized =>
          /\ heap = <<>>
          /\ registered = {}
          /\ ticks < MaxTicks => ENABLED TickCold
    /\ ticks > 0 => response = 204 /\ ENABLED TickResume
    /\ initialized =>
          \A u \in Units : Held(u) <= 1 /\ (Held(u) = 1 <=> u \in registered)

\* A first call failed to list the scripts; the call after it populated the
\* heap, both still suspended after initialize().
C22_Witness ==
    /\ ticks = 2
    /\ initialized
    /\ heap # <<>>
    /\ \A u \in registered : Held(u) = 1

\* C23: with the trigger firing again and again and every session call and
\* execute() settling, a unit whose nextRun has passed is eventually
\* dispatched and a dispatched unit is eventually back in the heap, whatever
\* the outcomes of the dispatches.
C23_EveryTaskKeepsRunning ==
    \A u \in Units :
        /\ (DueEntries(u) # {}) ~> (Dispatched(u) # {})
        /\ (Dispatched(u) # {}) ~> (InHeap(heap, u) # {})

\* A dispatch has failed leaving its session behind (the module still holds
\* its handle), nothing is in flight, and a unit is due again.
C23_Witness ==
    /\ driver # Null
    /\ \A s \in Slots : disp[s].pc = "idle"
    /\ \E u \in Units : DueEntries(u) # {}

\* C24: while execute() of one unit never settles, every other unit is still
\* dispatched once its nextRun has passed and put back in the heap after it.
C24_HungTaskStarvesNobody ==
    \A u \in Units \ {Hung} :
        /\ (Dispatched(Hung) # {} /\ DueEntries(u) # {}) ~> (Dispatched(u) # {})
        /\ (Dispatched(Hung) # {} /\ Dispatched(u) # {}) ~> (InHeap(heap, u) # {})

\* One unit is still executing; another, dispatched by a later call, has
\* already returned from execute().
C24_Witness ==
    \E s \in Dispatched(Hung), t \in Slots :
        /\ disp[s].pc = "executing"
        /\ disp[t].pc = "stopping"
        /\ disp[t].task.name # Hung
        /\ disp[t].began > disp[s].began

\* The dispatch in slot s is inside startAppiumSession().
Acquiring(s) == disp[s].pc \in {"connecting", "configuring"}

\* The step pushes the task of slot s back, with a nextRun computed now.
PushedBack(s) ==
    LET task == disp[s].task
        sch == task.schedule
    IN  /\ disp'[s] = Idle
        /\ Cardinality(InHeap(heap', task.name)) = 1
        /\ \A i \in InHeap(heap', task.name) :
              \E k \in JitterDraws(sch.offset) :
                 heap'[i].nextRun = calculateNextRun(now, sch.period, sch.position, sch.offset, k)

\* C25: when startAppiumSession() throws (remote() or setTimeout rejects),
\* execute() is not called for that dispatch: the catch block calls
\* stopAppiumSession() (deleteSession() on the handle the module holds, or
\* nothing when it holds none) and then pushes the task back with a nextRun
\* computed at that time.
C25_AcquireFailureIsTaskFailure ==
    [][\A s \in Slots :
          /\ (Acquiring(s) /\ ~Acquiring(s)' /\ disp'[s].pc # "executing") =>
                IF driver = Null
                THEN PushedBack(s)
                ELSE /\ disp'[s].pc = "cleanup"
                     /\ disp'[s].h = driver
                     /\ disp'[s].task = disp[s].task
                     /\ heap' = heap
          /\ (disp[s].pc = "cleanup" /\ disp'[s] # disp[s]) => PushedBack(s)]_vars

\* Two dispatches started by one call found no session; one has connected
\* and is configuring the only session there is, the other's remote() was
\* rejected and its catch block is deleting that session.
C25_Witness ==
    \E s, t \in Slots :
        /\ disp[s].pc = "cleanup"
        /\ disp[t].pc = "configuring"
        /\ disp[s].began = disp[t].began
        /\ disp[s].h = driver
        /\ Cardinality({i \in SessionIds : remote[i] # "none"}) = 1

\* The slots in which the step starts a dispatch.
StartedSlots == {s \in Slots : disp[s].pc = "idle" /\ disp'[s].pc # "idle"}

\* The step runs the extraction loop of checkAndExecuteTasks.
LoopStep == StartedSlots # {} \/ ticks' < ticks

\* The heap entries a call made now finds due.
DueNow == {i \in 1..Len(heap) : heap[i].nextRun <= now}

\* C26: a call dispatches exactly the entries with nextRun <= now: each of
\* them is popped and started, nothing else is, and after the loop the heap
\* is empty or its minimum has nextRun > now.
C26_TickTakesExactlyDue ==
    [][LoopStep =>
          /\ \A i \in DueNow : \E s \in StartedSlots : disp'[s].task = heap[i]
          /\ \A s \in StartedSlots : \E i \in DueNow : disp'[s].task = heap[i]
          /\ Cardinality(StartedSlots) = Cardinality(DueNow)
          /\ Len(heap') = Len(heap) - Cardinality(DueNow)
          /\ \A i \in 1..Len(heap') : \E j \in 1..Len(heap) : heap'[i] = heap[j]
          /\ heap' = <<>> \/ peek(heap').nextRun > now]_vars

\* One call has just started two dispatches and emptied the heap.
C26_Witness ==
    /\ heap = <<>>
    /\ \E s, t \in Slots :
          /\ s # t
          /\ disp[s].pc = "connecting" /\ disp[t].pc = "connecting"
          /\ disp[s].began = now /\ disp[t].began = now

\* C27: the dispatches one call starts are started in non-decreasing nextRun
\* order (the i-th executeTask call takes the i-th free slot).
C27_DispatchInDueOrder ==
    [][\A s, t \in StartedSlots :
          s < t => disp'[s].task.nextRun <= disp'[t].task.nextRun]_vars

\* One call started two dispatches whose nextRun differ, the earlier first.
C27_Witness ==
    \E s, t \in Slots :
        /\ s < t
        /\ disp[s].pc # "idle" /\ disp[t].pc # "idle"
        /\ disp[s].began = disp[t].began
        /\ disp[s].task.nextRun < disp[t].task.nextRun
        /\ disp[s].pc = disp[t].pc
        /\ \A r \in Slots \ {s, t} : disp[r].pc = "idle"

\* C28: the entry executeTask pushes back is the dispatched task with only
\* nextRun replaced (same name, script and schedule), nextRun being computed from
\* that schedule and the time at which the dispatch ends; the other entries
\* of the heap are kept.
C28_RescheduleChangesOnlyNextRun ==
    [][\A s \in Slots :
          (disp[s].pc # "idle" /\ disp'[s].pc = "idle") =>
             LET task == disp[s].task
                 sch == task.schedule
             IN  \E i \in 1..Len(heap') :
                    /\ [heap'[i] EXCEPT !.nextRun = task.nextRun] = task
                    /\ \E k \in JitterDraws(sch.offset) :
                          heap'[i].nextRun =
                             calculateNextRun(now, sch.period, sch.position, sch.offset, k)
                    /\ Len(heap') = Len(heap) + 1
                    /\ \A j \in 1..Len(heap) :
                          \E l \in 1..Len(heap') \ {i} : heap'[l] = heap[j]]_vars

\* Unit B, due at 3 s, was dispatched and ended a period later (at 4 s, while
\* a dispatch of A begun before 4 s is still in flight): it is back in the
\* heap for 7 s, the slot after the period it ended in, not for 5 s.
C28_Witness ==
    /\ now < 5 * MsPerSec
    /\ \E s \in Dispatched("A") : disp[s].began < 4 * MsPerSec
    /\ \E i \in InHeap(heap, "B") : heap[i].nextRun = 7 * MsPerSec

\* C29: a status query changes nothing but the answer it returns, and the
\* answer is {success: true} with the current `initialized`, queueSize equal
\* to the number of tasks listed and to the heap's size, and one listed task
\* per heap entry; before any population it is initialized = false,
\* queueSize = 0 and no task.
C29_StatusReadOnly ==
    [][status' # status =>
          /\ UNCHANGED <<schedVars, calcVars, debugVars, frontVars>>
          /\ Len(status') = 1
          /\ LET body == status'[1]
             IN  /\ body.success
                 /\ body.initialized = initialized
                 /\ body.queueSize = Len(body.tasks)
                 /\ body.queueSize = Len(heap)
                 /\ \A i \in 1..Len(heap) :
                       /\ body.tasks[i].name = heap[i].name
                       /\ body.tasks[i].schedule = heap[i].schedule
                       /\ body.tasks[i].nextRun = toISOString(heap[i].nextRun)
                 /\ (~initialized /\ registered = {}) =>
                       body = [success |-> TRUE, initialized |-> FALSE,
                               queueSize |-> 0, tasks |-> <<>>]]_vars

\* The last query was answered by a cold scheduler (not initialized, nothing
\* queued); the population made after it loaded the heap.
C29_Witness ==
    /\ status = <<[success |-> TRUE, initialized |-> FALSE, queueSize |-> 0, tasks |-> <<>>]>>
    /\ initialized
    /\ Len(heap) >= 2

\* C31: no two entries the scheduler holds, in the heap or in flight, have
\* the same name.
C31_UniqueNames ==
    /\ \A i, j \in 1..Len(heap) : i # j => heap[i].name # heap[j].name
    /\ \A s, t \in Slots \ FreeSlots(disp) : s # t => disp[s].task.name # disp[t].task.name
    /\ \A i \in 1..Len(heap) : \A s \in Slots \ FreeSlots(disp) :
          heap[i].name # disp[s].task.name

\* The period-aligned window [k * period, (k + 1) * period) that holds time t.
Window(t, sch) == t \div (sch.period * MsPerSec)

\* C35: a task without jitter is dispatched at most once in a period-aligned
\* window: it is dispatched no earlier than its nextRun, one dispatch at a
\* time, and the nextRun it is pushed back with lies in a window after the
\* one in which the dispatch began.
C35_OncePerWindow ==
    [][\A s \in Slots :
          /\ (s \in StartedSlots /\ disp'[s].task.schedule.offset = 0) =>
                /\ Window(disp'[s].task.nextRun, disp'[s].task.schedule)
                      <= Window(disp'[s].began, disp'[s].task.schedule)
                /\ \A t \in Slots \ {s} :
                      disp'[t].pc # "idle" => disp'[t].task.name # disp'[s].task.name
                /\ InHeap(heap', disp'[s].task.name) = {}
          /\ (disp[s].pc # "idle" /\ disp'[s].pc = "idle" /\ disp[s].task.schedule.offset = 0) =>
                \A i \in InHeap(heap', disp[s].task.name) :
                   Window(heap'[i].nextRun, disp[s].task.schedule)
                      > Window(disp[s].began, disp[s].task.schedule)]_vars

\* Unit B (no jitter) is in flight for the second time: registered before
\* 2 s (a dispatch of A begun then is still in flight), it ran in the window
\* of 3 s and is now dispatched with the nextRun of the following window.
C35_Witness ==
    /\ \E s \in Dispatched("A") : disp[s].began < 2 * MsPerSec
    /\ \E t \in Dispatched("B") :
          /\ disp[t].task.schedule.offset = 0
          /\ disp[t].task.nextRun = 5 * MsPerSec
          /\ disp[t].began >= 5 * MsPerSec

\* ------------------------------------------------------ recurrence claims

\* C3: the timestamp calculateNextRun returns is strictly greater than now,
\* for every period > 0, position in [0, period), jitter >= 0 and jitter draw.
C3_NextRunInFuture == calc.out # -1 => calc.out > calc.t

\* C13: with jitter 0, the nextRun computed is anchored on the period that
\* contains now: floor(now / period) * period + position when that is later
\* than now, and one period more otherwise.
C13_AnchoredOnCurrentPeriod ==
    (calc.out # -1 /\ calc.offset = 0) =>
        LET periodMs == calc.period * MsPerSec
            target == (calc.t \div periodMs) * periodMs + calc.position * MsPerSec
        IN  calc.out = (IF target > calc.t THEN target ELSE target + periodMs)

\* C14: with jitter 0, calculateNextRun depends on now, period and position
\* only, and its result is later than now and congruent to position modulo
\* period.
C14_DeterministicCadence ==
    (calc.out # -1 /\ calc.offset = 0) =>
        /\ calc.out > calc.t
        /\ (calc.out - calc.position * MsPerSec) % (calc.period * MsPerSec) = 0
        /\ \A k \in JitterDraws(calc.offset) :
              calculateNextRun(calc.t, calc.period, calc.position, calc.offset, k) = calc.out

\* A result was computed without jitter in the middle of a period, for a
\* task whose position is not the period start.
C14_Witness ==
    /\ calc.out # -1
    /\ calc.offset = 0
    /\ calc.period > 1
    /\ calc.position > 0
    /\ calc.t % (calc.period * MsPerSec) # 0

\* targetPeriodStart + position, in milliseconds: the result without jitter.
Anchor(t, period, position) ==
    (((t \div MsPerSec + period) \div period) * period + position) * MsPerSec

\* C30: the timestamp calculateNextRun returns differs from the anchor (a
\* period start plus position) by a whole number of seconds between -offset
\* and +offset, and with offset 0 it is the anchor.
C30_JitterBounded ==
    calc.out # -1 =>
        LET anchor == Anchor(calc.t, calc.period, calc.position)
            d == calc.out - anchor
        IN  /\ (anchor - calc.position * MsPerSec) % (calc.period * MsPerSec) = 0
            /\ d % MsPerSec = 0
            /\ d >= -(calc.offset * MsPerSec)
            /\ d <= calc.offset * MsPerSec
            /\ calc.offset = 0 => calc.out = anchor

\* A result was computed with the largest jitter and the highest draw: it is
\* exactly `offset` seconds after the anchor.
C30_Witness ==
    /\ calc.out # -1
    /\ calc.offset = MaxJitter
    /\ calc.k = 2 * calc.offset
    /\ calc.out = Anchor(calc.t, calc.period, calc.position) + calc.offset * MsPerSec

\* ------------------------------------------------------------ heap claims

CountIn(h, e) == Cardinality({i \in 1..Len(h) : h[i] = e})

\* C15: for every sequence of push and pop calls, the elements in the heap are
\* those pushed minus those popped, size() is the number of pushes minus the
\* number of successful pops, and every successful pop returns an element
\* that was present and whose nextRun is the minimum of those present.
C15_HeapContract ==
    /\ [](\A e \in HeapItems :
             CountIn(heap, e) = CopiesIn(e, ops.pushed) - CopiesIn(e, ops.popped))
    /\ [](size(heap) = BagCardinality(ops.pushed) - BagCardinality(ops.popped))
    /\ [][ops'.popped # ops.popped =>
             /\ CountIn(heap, ops'.last) > 0
             /\ \A i \in 1..Len(heap) : ops'.last.nextRun <= heap[i].nextRun]_vars

\* After four pushes with equal and different nextRun values, two pops took
\* out first a smallest and then a larger element, and two elements remain.
C15_Witness ==
    /\ BagCardinality(ops.pushed) = 4
    /\ BagCardinality(ops.popped) = 2
    /\ size(heap) = 2
    /\ ops.last.nextRun = 1
    /\ \E e \in HeapItems : e.nextRun = 0 /\ CopiesIn(e, ops.popped) = 1
    /\ heap[1].nextRun = heap[2].nextRun

\* C32: pop() and peek() on an empty heap return null and leave the heap
\* empty with size() = 0, and the heap then behaves as a new one: the next
\* push makes its element the root, and popping it empties the heap again.
C32_EmptyHeapIsSafe ==
    /\ [](size(heap) = 0 =>
             /\ peek(heap) = NoTask
             /\ popHeap(heap) = <<>>
             /\ \A e \in HeapItems :
                   /\ peek(push(popHeap(heap), e)) = e
                   /\ size(push(popHeap(heap), e)) = 1
                   /\ popHeap(push(popHeap(heap), e)) = <<>>)
    /\ [][(size(heap) = 0 /\ ops'.pushed = ops.pushed) =>
             /\ heap' = <<>>
             /\ size(heap') = 0
             /\ ops'.last = NoTask
             /\ ops'.popped = ops.popped]_vars

\* The heap was emptied by pops, pop() was called once more on the empty heap
\* (it returned null), and an element pushed after that is alone in the heap.
C32_Witness ==
    /\ BagCardinality(ops.popped) >= 1
    /\ BagCardinality(ops.popped) = BagCardinality(ops.pushed) - 1
    /\ ops.last = NoTask
    /\ size(heap) = 1

\* C39: after every sequence of push and pop calls (the calls of ticks and of
\* completing dispatches run one at a time, in any order), each element of
\* the heap array is not earlier than its parent.
C39_HeapOrdered ==
    \A i \in 1..(size(heap) - 1) : At(heap, parent(i)).nextRun <= At(heap, i).nextRun

\* Pushes and pops have alternated and left three elements whose array order
\* is not their nextRun order.
C39_Witness ==
    /\ BagCardinality(ops.popped) >= 1
    /\ size(heap) = 3
    /\ heap[1].nextRun < heap[3].nextRun
    /\ heap[3].nextRun < heap[2].nextRun

\* ----------------------------------------------------------- debug claims

\* The step in which activation r's handler fails with an error of `kind`.
HandlerFailed(r, kind) ==
    /\ req[r].pc = "handling"
    /\ req'[r].pc # "handling"
    /\ req'[r].lastError = [kind |-> kind, attempt |-> req[r].attempt, src |-> "handler"]

\* C5 as claimed: when the operation fails with an error matching no crash
\* signature and retries remain, the error is surfaced at once and the
\* operation is not invoked again.
C5_NonCrashSurfacedAtOnce ==
    [][\A r \in {Observed} :
          (HandlerFailed(r, "other") /\ req[r].attempt < req[r].retries)
             => (req'[r].pc = "done" /\ req'[r].outcome = "error")]_vars

\* C5 amended: a failure matching no crash signature with retries left keeps
\* the handle and starts the next attempt at once; an error is surfaced to
\* the caller only on the last attempt.
C5_NonCrashRetriedAtOnce ==
    [][\A r \in {Observed} :
          /\ (HandlerFailed(r, "other") /\ req[r].attempt < req[r].retries)
                => /\ req'[r].attempt = req[r].attempt + 1
                   /\ req'[r].pc \in {"status", "connecting"}
                   /\ debugDriver' = debugDriver
          /\ (req[r].pc # "done" /\ req'[r].pc = "done" /\ req'[r].outcome = "error")
                => req[r].attempt = req[r].retries]_vars

\* With retries = 1, a non-crash failure on attempt 0 was followed by a second
\* handler call on attempt 1.
C5_Witness ==
    \E r \in {Observed} :
        /\ req[r].pc = "handling"
        /\ req[r].attempt = 1
        /\ req[r].calls = 2
        /\ req[r].lastError = [kind |-> "other", attempt |-> 0, src |-> "handler"]

\* C6: an activation with retries = 1, running with no other activation in
\* flight, whose handler failed with a crash signature on the first call and
\* succeeded on the retry, returns the successful result, and exactly one
\* remote() connect was made for the retry, on which the handler then ran.
C6_CrashRecovered ==
    \A r \in {Observed} :
        (/\ req[r].pc = "done"
         /\ req[r].alone
         /\ req[r].retries = 1
         /\ req[r].calls = 2
         /\ req[r].lastError = [kind |-> "crash", attempt |-> 0, src |-> "handler"]
         /\ req[r].res = "ok")
            => (req[r].outcome = "ok" /\ req[r].connects = 1)

C6_Witness ==
    \E r \in {Observed} :
        /\ req[r].pc = "done"
        /\ req[r].alone
        /\ req[r].retries = 1
        /\ req[r].calls = 2
        /\ req[r].lastError = [kind |-> "crash", attempt |-> 0, src |-> "handler"]
        /\ req[r].outcome = "ok"
        /\ debugDriver = req[r].h

\* C7: when handleRequest gives up with a crash-signature failure of the
\* handler, `debugDriver` is not left pointing at the handle that failed.
C7_NoBadHandleLeft ==
    [][\A r \in {Observed} :
          (/\ HandlerFailed(r, "crash")
           /\ req'[r].pc = "done")
             => debugDriver' # req[r].h]_vars

\* C8 (bounded): the handler is called at most retries + 1 times, and an
\* error is raised only by the last attempt and is that attempt's error.
C8_Bounded ==
    \A r \in {Observed} :
        /\ req[r].attempt <= req[r].retries
        /\ req[r].calls <= req[r].retries + 1
        /\ (req[r].pc = "done" /\ req[r].outcome = "error")
              => (req[r].lastError.attempt = req[r].retries
                  /\ req[r].attempt = req[r].retries)

\* C8: handleRequest is bounded and, when every remote call and timer
\* settles, it terminates.
C8_BoundedAndTerminates ==
    /\ []C8_Bounded
    /\ \A r \in {Observed} : (req[r].pc \notin {"idle", "done"}) ~> (req[r].pc \in {"idle", "done"})

\* Every attempt of a retries = 1 activation failed and the error was raised.
C8_Witness ==
    \E r \in {Observed} :
        /\ req[r].pc = "done"
        /\ req[r].outcome = "error"
        /\ req[r].retries = MaxRetries
        /\ req[r].calls = MaxRetries + 1

\* C9: at most one remote session is connected and not yet disconnected.
C9_OneOpenSession == Cardinality(DOpenSessions) <= 1

\* The step in which handleRequest's catch block of activation r decides
\* "session crashed, recreate" (debug.js:136-142) and waits before retrying.
Invalidates(r) == req[r].pc \notin {"idle", "done", "backoff"} /\ req'[r].pc = "backoff"

\* C33: when handleRequest invalidates the session after a crash, it discards
\* only the handle its own failed attempt used: a different, healthy handle that
\* a concurrent call has established in the meantime stays in `debugDriver`.
C33_DiscardsOnlyOwnHandle ==
    [][\A r \in {Observed} :
          (/\ Invalidates(r)
           /\ debugDriver # Null
           /\ debugDriver # req[r].h
           /\ dremote[debugDriver] = "open")
             => debugDriver' = debugDriver]_vars

\* C34: getDebugDriver called with no other call in flight.
\*  - it returns (the handler is called) only out of a status check that
\*    succeeded on the existing handle or out of a connect made by this call,
\*    and what it returns is the module's handle;
\*  - a failed status check is followed by deleteSession() on the old handle,
\*    and however that settles the handle is cleared and remote() is called;
\*  - one call makes at most one connect, which stores a session that did not
\*    exist before;
\*  - a failed connect leaves the handle Absent and its error reaches the
\*    caller's catch block.
C34_LoneAcquire ==
    [][\A r \in {Observed} :
          (req[r].alone /\ req'[r].alone /\ req'[r] # req[r]) =>
             /\ (req[r].pc # "handling" /\ req'[r].pc = "handling")
                   => /\ req[r].pc \in {"status", "configuring"}
                      /\ req[r].pc = "status"
                            => (dremote[req[r].h] = "open" /\ debugDriver = req[r].h)
                      /\ req[r].pc = "configuring" => req[r].connects = 1
                      /\ req'[r].h = debugDriver'
                      /\ debugDriver' = debugDriver
                      /\ debugDriver # Null
             /\ (req[r].pc = "status" /\ req'[r].pc # "handling")
                   => /\ req'[r].pc = "deleting"
                      /\ req'[r].h = req[r].h
                      /\ debugDriver' = debugDriver
             /\ req[r].pc = "deleting"
                   => /\ req'[r].pc = "connecting"
                      /\ debugDriver' = Null
             /\ (req[r].pc = "connecting" /\ req'[r].pc = "configuring")
                   => /\ req[r].connects = 0
                      /\ req'[r].connects = 1
                      /\ dremote[debugDriver'] = "none"
                      /\ dremote'[debugDriver'] = "open"
                      /\ debugDriver = Null
             /\ (req[r].pc = "connecting" /\ req'[r].pc # "configuring")
                   => /\ debugDriver' = Null
                      /\ req'[r].lastError.src = "connect"
                      /\ req'[r].lastError.attempt = req[r].attempt
                      /\ req'[r].pc = "done" => req'[r].outcome = "error"
             /\ req'[r].connects <= 1]_vars

\* A lone call found its handle's status check failing on a crashed session
\* and has issued deleteSession() on it.
C34_Witness ==
    \E r \in {Observed} :
        /\ req[r].alone
        /\ req[r].pc = "deleting"
        /\ req[r].h = debugDriver
        /\ dremote[req[r].h] = "crashed"

\* The step in which handleDebugAPI is called.
ApiCalled == api.pc # "pending" /\ api' # api

\* C37: closeDebugSession never raises and leaves the handle Absent whether
\* deleteSession() resolved or rejected; called without a session it returns
\* at once, makes no remote call and changes nothing.
C37_CloseLeavesAbsent ==
    [][\A r \in {Observed} :
          /\ (req[r].pc = "closing" /\ req'[r].pc # "closing")
                => /\ debugDriver' = Null
                   /\ req'[r].pc = "done"
                   /\ req'[r].outcome = "ok"
          /\ (/\ ApiCalled
              /\ Route(api'.method, api'.action, api'.package) = "closeDebugSession"
              /\ debugDriver = Null)
                => /\ debugDriver' = Null
                   /\ dremote' = dremote
                   /\ req'[r].pc = "done"
                   /\ req'[r].outcome = "ok"]_vars

\* closeDebugSession has returned after its deleteSession() rejected on a
\* session that is still registered with the server.
C37_Witness ==
    \E r \in {Observed} :
        /\ req[r].op = "close"
        /\ req[r].pc = "done"
        /\ req[r].res = "other"
        /\ dremote[req[r].h] # "none"
        /\ debugDriver = Null

\* The actions each method's switch has a case for (debug.js:353-385).
KnownActions(method) ==
    IF method = "GET" THEN {"dump", "screenshot", "activity", "packages", "activities", "status"}
    ELSE IF method = "POST" THEN {"click", "launch", "connect", "disconnect"}
    ELSE {}

\* An invalid method, an unknown action, or 'activities' without a package.
Invalid(a) ==
    \/ a.method \notin {"GET", "POST"}
    \/ a.action \notin KnownActions(a.method)
    \/ (a.method = "GET" /\ a.action = "activities" /\ ~a.package)

\* C38: handleDebugAPI never raises; an operation that threw, after its
\* retries, is answered with {success: false, error}; an invalid call is
\* answered with an error at once, enters no operation, makes no remote call
\* and leaves the handle as it is.
C38_ApiNeverRaises ==
    [][/\ api'.reply # "raised"
       /\ (api.pc = "pending" /\ api'.pc = "replied" /\ req[Observed].outcome # "ok")
             => api'.reply = "failure"
       /\ (api.pc = "pending" /\ api'.pc = "replied" /\ req[Observed].outcome = "error")
             => /\ req[Observed].op = "request"
                /\ req[Observed].attempt = req[Observed].retries
       /\ (ApiCalled /\ Invalid(api'))
             => /\ api'.pc = "replied"
                /\ api'.reply = "failure"
                /\ UNCHANGED <<debugDriver, dremote, req>>]_vars

\* GET ?action=screenshot was answered with an error after the handler had
\* failed on both attempts of handleRequest.
C38_Witness ==
    /\ api.pc = "replied"
    /\ api.action = "screenshot"
    /\ api.reply = "failure"
    /\ req[Observed].outcome = "error"
    /\ req[Observed].calls = DefaultRetries + 1

\* Every client that connected has closed its socket, and no connection or
\* close handler is pending.
WsQuiet ==
    /\ \E c \in Clients : ws[c].pc # "none"
    /\ \A c \in Clients : ws[c].pc # "none" => (ws[c].socket = "closed"
                                                /\ ws[c].pc \in {"ready", "closed"})

\* C36: once every WebSocket client has disconnected and all handlers have
\* finished, `connections` is empty and the handle is Absent; and the debug
\* session is not closed while a client is registered in `connections`.
C36_LastClientClosesSession ==
    /\ [](WsQuiet => (connections = {} /\ debugDriver = Null))
    /\ [][\A c \in Clients :
             (ws[c].pc = "closing" /\ ws'[c].pc = "closed") => connections = {}]_vars

====
